---- MODULE Spec2Model ----
(***************************************************************************)
(* Model of package httpclient of goutils: the request executor reqResp,   *)
(* its constructor NewReqResp, the exchange HTTPreq with its retry loop,   *)
(* and the accessors RespBody and RespCode.                                *)
(*                                                                         *)
(* The repository carries three builds of the package:                     *)
(*   "v1"  src/unnamed/part_001 lines 1-265   (target, method, body and    *)
(*         headers are given to NewReqResp; HTTPreq takes no argument)     *)
(*   "v2"  src/unnamed/part_001 lines 267-558 (miscutils.NewObjParams;     *)
(*         target, method, body and headers are given to HTTPreq)          *)
(*   "v3"  src/unnamed/part_002               (slog logger; target,        *)
(*         method, body and headers are given to HTTPreq)                  *)
(* The variable variant fixes the build a behaviour runs.                  *)
(*                                                                         *)
(* Texts that the code inspects or converts are sequences: a request       *)
(* payload is a sequence of one-character strings, an error text is a      *)
(* sequence of message fragments (strings.Contains is membership of a      *)
(* fragment).  Time is counted in whole seconds.                           *)
(***************************************************************************)
EXTENDS Integers, Sequences, FiniteSets, TLC

\* ------------------------------------------------------------------ bounds
\* cap on the transport attempts of one exchange the model follows when it
\* explores the retry loop in depth (SpecRetry)
MaxAttempts == 33
\* the same cap when it explores every kind of argument (Spec)
MaxShallow == 2
\* the clock saturates here; larger than every configured timeout
ElapsedCap == 125
\* calls of HTTPreq on one executor the model follows (SpecReuse)
MaxCalls == 2

\* ------------------------------------------------------- program constants
thirty == 30
ten == 10
one == 1
InitialRetries == 30
InitialSeconds == 1
\* DefaultTimeout = time.Second * thirty
DefaultTimeout == thirty

Post == "POST"
Delete == "DELETE"
Get == "GET"

Variants == {"v1", "v2", "v3"}

\* --------------------------------------------------------------- Go values
\* a *string method argument: nil or a pointer to a method name
NilMethod == "<nil>"
MethodArgs(sc) ==
    IF sc = "wide" THEN {NilMethod, Get, Post, Delete} ELSE {NilMethod, Post}

\* a *url.URL: nil, or a URL with a scheme and a host
NilURL == [isNil |-> TRUE, Scheme |-> "", Host |-> ""]
EmptyURL == [isNil |-> FALSE, Scheme |-> "", Host |-> ""]
HTTPURL == [isNil |-> FALSE, Scheme |-> "http", Host |-> "x"]
HTTPSURL == [isNil |-> FALSE, Scheme |-> "https", Host |-> "x"]
URLArgs(sc) ==
    IF sc = "wide" THEN {NilURL, EmptyURL, HTTPURL, HTTPSURL} ELSE {NilURL, HTTPURL}

\* a *time.Duration timeout argument, in seconds; 0 stands for nil
NilTimeout == 0
TimeoutArgs == {NilTimeout, 120}

\* an interface{} body: nil, a string, a map with one integer entry, or a
\* value encoding/json cannot serialise (a channel)
NilBody == [kind |-> "nil", chars |-> <<>>, key |-> "", val |-> 0]
StrBody(cs) == [kind |-> "string", chars |-> cs, key |-> "", val |-> 0]
MapBody(k, v) == [kind |-> "map", chars |-> <<>>, key |-> k, val |-> v]
ChanBody == [kind |-> "chan", chars |-> <<>>, key |-> "", val |-> 0]

Quote == "\""
Backslash == "\\"
\* the string {"a":1}, one character per element
JSONText == <<"{", Quote, "a", Quote, ":", "1", "}">>
BodyArgs(sc) ==
    IF sc = "wide" THEN {NilBody, StrBody(JSONText), MapBody("a", 1), ChanBody}
    ELSE {StrBody(JSONText)}

\* a Header (map[string]string): a function from the header names of the
\* model to a value, Absent for a key the map does not hold; nil is apart
Absent == "<absent>"
HeaderNames == {"Accept", "Token", "Content-Type", "Content-Length"}
EmptyHeaderMap == [n \in HeaderNames |-> Absent]
NilHeader == [isNil |-> TRUE, map |-> EmptyHeaderMap]
HeaderOf(m) == [isNil |-> FALSE, map |-> m]
CallerHeader ==
    [EmptyHeaderMap EXCEPT !["Accept"] = "a", !["Token"] = "",
                           !["Content-Type"] = "text/plain"]
HeaderArgs(sc) ==
    IF sc = "wide" THEN {NilHeader, HeaderOf(CallerHeader)} ELSE {NilHeader}

\* ------------------------------------------------------------------ errors
\* an error value: its sentinel (kind) and its text, as message fragments
NoError == [kind |-> "nil", msg |-> <<>>]
Err(k, m) == [kind |-> k, msg |-> m]
\* a run-time panic (nil pointer dereference) ends the call abnormally
Panic(where) == [kind |-> "panic", msg |-> <<where>>]

ErrorInvalidURL == Err("ErrorInvalidURL", <<"url is invalid">>)

\* fmt.Errorf("%w: %s", ErrorReadingRespBody, msg)
readingResponseBodyError(msg) ==
    Err("ErrorReadingRespBody", <<"error reading response body">> \o msg)

\* requestError without the detail text
requestErrorBare(msg) ==
    Err("ErrorRequestFailed", <<"error making request">>)

\* fmt.Errorf("%w: %s", ErrorRequestFailed, msg)
requestError(msg) ==
    Err("ErrorRequestFailed", <<"error making request">> \o msg)

\* fmt.Errorf("%w: %s", ErrorRequestBodyInvalid, msg)
requestBodyError(msg) ==
    Err("ErrorRequestBodyInvalid",
        <<"failed to convert request body data to JSON">> \o msg)

\* strings.Contains(err.Error(), sub), on message fragments
Contains(msg, sub) == \E i \in DOMAIN msg : msg[i] = sub

\* the six texts HTTPreq retries on
RetryableTexts ==
    { "connection refused",
      "http2: no cached connection was available",
      "net/http: TLS handshake timeout",
      "i/o timeout",
      "unexpected EOF",
      "Client.Timeout exceeded while awaiting headers" }

\* a classification that also retries on a bare EOF
IsRetryableLoose(msg) == \E t \in RetryableTexts \cup {"EOF"} : Contains(msg, t)

\* a retry test that also matches the error of a cancelled context
IsRetryableCanceled(msg) ==
    \E t \in RetryableTexts \cup {"context canceled"} : Contains(msg, t)

\* strings.Contains(err.Error(), t) for one of the six texts
IsRetryable(msg) == \E t \in RetryableTexts : Contains(msg, t)

\* errors client.Do returns for a target with a host
TransportErrors ==
    { <<"dial tcp", "connect", "connection refused">>,
      <<"http2: no cached connection was available">>,
      <<"net/http: TLS handshake timeout">>,
      <<"read tcp", "i/o timeout">>,
      <<"unexpected EOF">>,
      <<"net/http: request canceled",
        "Client.Timeout exceeded while awaiting headers">>,
      <<"dial tcp", "lookup x", "no such host">>,
      <<"EOF">>,
      <<"read tcp", "connection reset by peer">> }

\* the error client.Do returns for a URL without a scheme
UnsupportedScheme == <<"unsupported protocol scheme">>

\* ------------------------------------------------------------ encoding/json
\* string escaping of encoding/json: a quote and a backslash get a backslash
RECURSIVE EscapeJSON(_)
EscapeJSON(cs) ==
    IF cs = <<>> THEN <<>>
    ELSE (IF Head(cs) \in {Quote, Backslash}
          THEN <<Backslash, Head(cs)>>
          ELSE <<Head(cs)>>) \o EscapeJSON(Tail(cs))

Digits == <<"0", "1", "2", "3", "4", "5", "6", "7", "8", "9">>
\* fmt.Sprintf("%d", n) for 0 <= n < 100, as one string
DecStr(n) ==
    IF n < 10 THEN Digits[n + 1]
    ELSE IF n < 100 THEN Digits[(n \div 10) + 1] \o Digits[(n % 10) + 1]
    ELSE "many"

\* json.Marshal(v): the bytes, or the error of an unsupported type
jsonMarshal(v) ==
    CASE v.kind = "nil" -> [ok |-> TRUE, bytes |-> <<"n", "u", "l", "l">>]
      [] v.kind = "string" ->
            [ok |-> TRUE, bytes |-> <<Quote>> \o EscapeJSON(v.chars) \o <<Quote>>]
      [] v.kind = "map" ->
            [ok |-> TRUE,
             bytes |-> <<"{", Quote, v.key, Quote, ":", Digits[v.val + 1], "}">>]
      [] OTHER -> [ok |-> FALSE, bytes |-> <<>>]

MarshalErrorText == <<"json: unsupported type: chan int">>

\* ------------------------------------------------------------ HTTP responses
\* a *http.Response: nil, or the status, the text the server sends as body,
\* whether the body stream can be read to its end, and how often it has
\* been read and whether it has been closed
NilResp == [isNil |-> TRUE, StatusCode |-> 0, Status |-> "", Body |-> "",
            readable |-> FALSE, closed |-> FALSE, reads |-> 0]
StatusCodes == {200, 201, 204, 500}
StatusLine(code) ==
    CASE code = 200 -> "200 OK"
      [] code = 201 -> "201 Created"
      [] code = 204 -> "204 No Content"
      [] OTHER -> "500 Internal Server Error"
ResponseBodies == {"hi", "null"}
Response(code, text, canRead) ==
    [isNil |-> FALSE, StatusCode |-> code, Status |-> StatusLine(code),
     Body |-> text, readable |-> canRead, closed |-> FALSE, reads |-> 0]

\* a *string: nil or a pointer to a text
NilText == [isNil |-> TRUE, s |-> ""]
Text(t) == [isNil |-> FALSE, s |-> t]

\* ------------------------------------------------------------------- state
VARIABLES
    scope,          \* "wide": every kind of argument; "deep": the whole retry loop
    variant,        \* the build of the package that runs
    pc,             \* "new", "invalid", "ready", "loop", "inflight", "returned",
                    \* "panicked"
    timeout,        \* r.timeout, seconds
    client,         \* r.client: "nil", "plain" or "tls"
    url,            \* r.url
    method,         \* r.method
    body,           \* r.body
    headerFields,   \* r.headerFields
    resp,           \* r.resp
    respText,       \* r.respText
    argURL,         \* the target given for the exchange
    argMethod,      \* the method given for the exchange
    argBody,        \* the body given for the exchange
    argHeader,      \* the headers given for the exchange
    reqBody,        \* httpReq.Body: whether present, and the bytes of its reader
    bodyConsumed,   \* whether an attempt has drained the reader of httpReq.Body
    reqHeader,      \* httpReq.Header
    retries,        \* local retries of HTTPreq
    seconds,        \* local seconds of HTTPreq
    elapsed,        \* time.Since(start) when HTTPreq last read the clock,
                    \* seconds, saturating at ElapsedCap
    attempts,       \* calls of r.client.Do in this exchange
    sleeps,         \* durations passed to time.Sleep in this exchange, in order
    wire,           \* the payload the latest attempt handed to the transport
    lastErr,        \* error of the latest failed r.client.Do
    err,            \* what NewReqResp or HTTPreq returned (or the panic)
    out,            \* what the latest accessor call returned
    inFlight,       \* calls of r.client.Do that have not returned yet
    ctxDone,        \* whether the context of the executor is done
    calls           \* calls of HTTPreq made on the executor

\* package k8s: the handle k8s of client.go
VARIABLES
    kPc,            \* "new", "ready" (a handle exists), "failed" (NewK8s returned an error)
    kConfig,        \* k.config
    kClient,        \* k.client
    kCC,            \* k.cc
    kSet,           \* per field, the value of its most recent successful set
    kCall           \* the latest call: operation, arguments, error returned

\* package logging: one call of setSourceName
VARIABLES
    lgPc,           \* "call", "done"
    lgEnv,          \* the environment variable SOURCE_PATH_DEPTH
    lgAttr,         \* the slog.Attr given
    lgOut           \* the slog.Attr returned

\* package github: one call of GetActionsReleases
VARIABLES
    ghPc,           \* "loop", "returned"
    ghServer,       \* the releases of actions/runner, page by page
    ghPage,         \* opts.Page
    ghReleases,     \* the local slice releases
    ghRequests,     \* calls of Repositories.ListReleases
    ghOut           \* what GetActionsReleases returned

\* package k8s: one call of WaitForPodDeletion or WaitForDeploymentDeletion
VARIABLES
    wPc,            \* "call", "polling", "returned"
    wKind,          \* "pod" or "deployment"
    wWaitFor,       \* the argument waitFor, seconds
    wTime,          \* seconds since the poll started
    wGet,           \* what Get reported in the latest poll
    wErr            \* the error returned

\* package k8s: one call of GetPodNameFromLabelSelector
VARIABLES
    plPc,           \* "call", "returned", "panicked"
    plList,         \* what Pods(namespace).List returns
    plOut           \* the name and error returned

\* package ecr: one call of GetLatestImage
VARIABLES
    ecPc,           \* "loop", "tags", "returned"
    ecPolicy,       \* the argument policy
    ecServer,       \* the tagged images of the repository, page by page
    ecToken,        \* params.NextToken: 0 for nil, or the number of the next page
    ecLatest,       \* the local latestImage
    ecSeen,         \* the tags MaxImage has been given so far
    ecQueue,        \* the tags of the page in hand MaxImage has yet to be given
    ecOut           \* what GetLatestImage returned

\* package aws: the configuration cache cfg
VARIABLES
    awPc,           \* "new", "ready"
    awConfigs,      \* c.configs
    awLoads,        \* per key, the calls of config.LoadDefaultConfig for this cache
    awTotal,        \* per key, the calls of config.LoadDefaultConfig for all caches
    awFirst,        \* per key, the configuration its first load stored
    awOut           \* the latest call of NewConfig and what it returned

k8sVars == <<kPc, kConfig, kClient, kCC, kSet, kCall>>
logVars == <<lgPc, lgEnv, lgAttr, lgOut>>
ghVars == <<ghPc, ghServer, ghPage, ghReleases, ghRequests, ghOut>>
waitVars == <<wPc, wKind, wWaitFor, wTime, wGet, wErr>>
podVars == <<plPc, plList, plOut>>
ecrVars == <<ecPc, ecPolicy, ecServer, ecToken, ecLatest, ecSeen, ecQueue, ecOut>>
awsVars == <<awPc, awConfigs, awLoads, awTotal, awFirst, awOut>>

\* the variables of the packages other than httpclient
libVars == <<k8sVars, logVars, ghVars, waitVars, podVars, ecrVars, awsVars>>

\* the variables of package httpclient
httpVars == <<variant, pc, timeout, client, url, method, body, headerFields, resp,
              respText, argURL, argMethod, argBody, argHeader, reqBody,
              bodyConsumed, reqHeader, retries, seconds, elapsed, attempts,
              sleeps, wire, lastErr, err, out, inFlight, ctxDone, calls>>

vars == <<scope, httpVars, libVars>>

execVars == <<timeout, client, url, method, body, headerFields>>
argVars == <<argURL, argMethod, argBody, argHeader>>
reqVars == <<reqBody, bodyConsumed, reqHeader>>
loopVars == <<retries, seconds, elapsed, attempts, sleeps, wire, lastErr>>

NoReqBody == [present |-> FALSE, bytes |-> <<>>]
NoOut == [op |-> "none", text |-> NilText, code |-> 0]

InitState ==
    /\ variant \in Variants
    /\ pc = "new"
    /\ timeout = NilTimeout
    /\ client = "nil"
    /\ url = NilURL
    /\ method = NilMethod
    /\ body = NilBody
    /\ headerFields = NilHeader
    /\ resp = NilResp
    /\ respText = NilText
    /\ argURL = NilURL
    /\ argMethod = NilMethod
    /\ argBody = NilBody
    /\ argHeader = NilHeader
    /\ reqBody = NoReqBody
    /\ bodyConsumed = FALSE
    /\ reqHeader = EmptyHeaderMap
    /\ retries = 0
    /\ seconds = 0
    /\ elapsed = 0
    /\ attempts = 0
    /\ sleeps = <<>>
    /\ wire = <<>>
    /\ lastErr = NoError
    /\ err = NoError
    /\ out = NoOut
    /\ inFlight = 0
    /\ ctxDone = FALSE
    /\ calls = 0

\* a package that takes no part in the behaviour
Idle == "idle"
K8sIdle ==
    /\ kPc = Idle /\ kConfig = Idle /\ kClient = Idle /\ kCC = Idle
    /\ kSet = Idle /\ kCall = Idle
LogIdle == lgPc = Idle /\ lgEnv = Idle /\ lgAttr = Idle /\ lgOut = Idle
GhIdle ==
    /\ ghPc = Idle /\ ghServer = Idle /\ ghPage = Idle /\ ghReleases = Idle
    /\ ghRequests = Idle /\ ghOut = Idle
WaitIdle ==
    /\ wPc = Idle /\ wKind = Idle /\ wWaitFor = Idle /\ wTime = Idle
    /\ wGet = Idle /\ wErr = Idle
PodIdle == plPc = Idle /\ plList = Idle /\ plOut = Idle
EcrIdle ==
    /\ ecPc = Idle /\ ecPolicy = Idle /\ ecServer = Idle /\ ecToken = Idle
    /\ ecLatest = Idle /\ ecSeen = Idle /\ ecQueue = Idle /\ ecOut = Idle
AwsIdle ==
    /\ awPc = Idle /\ awConfigs = Idle /\ awLoads = Idle /\ awTotal = Idle
    /\ awFirst = Idle /\ awOut = Idle
LibIdle == K8sIdle /\ LogIdle /\ GhIdle /\ WaitIdle /\ PodIdle /\ EcrIdle /\ AwsIdle
HTTPIdle == InitState /\ variant = "v1"

Init == scope = "wide" /\ InitState /\ LibIdle

InitRetry == scope = "deep" /\ InitState /\ LibIdle

\* the same program with the executor used for several exchanges
InitReuse == scope = "reuse" /\ InitState /\ LibIdle

\* -------------------------------------------------------------- NewReqResp
\* the client NewReqResp (v1) or HTTPreq (v2, v3) builds for a target
ClientFor(u) == IF u.Scheme = "https" THEN "tls" ELSE "plain"

DefaultMethod(m) == IF m = NilMethod THEN Get ELSE m
DefaultHeader(h) == IF h.isNil THEN HeaderOf(EmptyHeaderMap) ELSE h
DefaultedTimeout(t) == IF t = NilTimeout THEN DefaultTimeout ELSE t

\* NewReqResp of v1: the exchange is described at construction
NewReqRespV1(u, m, b, h, t) ==
    /\ pc = "new"
    /\ variant = "v1"
    /\ argURL' = u /\ argMethod' = m /\ argBody' = b /\ argHeader' = h
    /\ IF u.isNil
       THEN /\ pc' = "invalid"
            /\ err' = ErrorInvalidURL
            /\ UNCHANGED execVars
       ELSE /\ pc' = "ready"
            /\ err' = NoError
            /\ client' = ClientFor(u)
            /\ url' = u
            /\ method' = DefaultMethod(m)
            /\ timeout' = DefaultedTimeout(t)
            /\ body' = b
            /\ headerFields' = DefaultHeader(h)
    /\ UNCHANGED <<libVars, calls, scope, variant, ctxDone, inFlight, resp, respText, reqVars, loopVars, out>>

\* NewReqResp of v2 and v3: only the timeout is kept; the target, method,
\* body and header fields stay at their zero values
NewReqRespV23(t) ==
    /\ pc = "new"
    /\ variant \in {"v2", "v3"}
    /\ pc' = "ready"
    /\ err' = NoError
    /\ timeout' = DefaultedTimeout(t)
    /\ UNCHANGED <<libVars, calls, scope, variant, ctxDone, inFlight, client, url, method, body, headerFields, resp,
                   respText, argVars, reqVars, loopVars, out>>

\* ----------------------------------------------------------------- HTTPreq
\* a request body attached whatever the method
BuildBodyAlways(v, m, b, rbody) ==
    IF v # "v1" /\ b.kind = "string"
    THEN [ok |-> TRUE, present |-> TRUE, bytes |-> b.chars]
    ELSE LET j == jsonMarshal(rbody)
         IN  [ok |-> j.ok, present |-> j.ok, bytes |-> j.bytes]

\* the request body HTTPreq builds: only POST attaches one.  v1 always
\* marshals r.body; v2 and v3 pass a string argument through and otherwise
\* marshal the field r.body (not the argument)
BuildBody(v, m, b, rbody) ==
    IF m # Post THEN [ok |-> TRUE, present |-> FALSE, bytes |-> <<>>]
    ELSE IF v # "v1" /\ b.kind = "string"
         THEN [ok |-> TRUE, present |-> TRUE, bytes |-> b.chars]
         ELSE LET j == jsonMarshal(rbody)
              IN  [ok |-> j.ok, present |-> j.ok, bytes |-> j.bytes]

\* v2 records the content headers of a POST in r.headerFields
ContentHeaders(v, m, h, bytes) ==
    IF v = "v2" /\ m = Post
    THEN HeaderOf([h.map EXCEPT !["Content-Type"] = "application/json",
                                !["Content-Length"] = DecStr(Len(bytes))])
    ELSE h

\* header setting without the test of the value's length
SetHeadersAll(h) == [n \in HeaderNames |-> h.map[n]]

\* for k, v := range r.headerFields { if len(v) > 0 { httpReq.Header.Set(k, v) } }
SetHeaders(h) ==
    [n \in HeaderNames |->
        IF h.map[n] # Absent /\ h.map[n] # "" THEN h.map[n] ELSE Absent]

\* retries := 30; seconds := 1; start := time.Now()
StartLoop ==
    /\ retries' = InitialRetries
    /\ seconds' = InitialSeconds
    /\ elapsed' = 0
    /\ attempts' = 0
    /\ sleeps' = <<>>
    /\ wire' = <<>>
    /\ lastErr' = NoError

\* the part of HTTPreq all builds share, from the body construction to the
\* entry of the retry loop; m, rbody, h are the values of r.method, r.body
\* and r.headerFields at that point, b the body argument
BuildRequest(m, b, rbody, h) ==
    LET p == BuildBody(variant, m, b, rbody)
    IN  IF ~p.ok
        THEN /\ pc' = "returned"
             /\ err' = requestBodyError(MarshalErrorText)
             /\ headerFields' = h
             /\ UNCHANGED <<reqVars, loopVars>>
        ELSE /\ pc' = "loop"
             /\ err' = NoError
             /\ headerFields' = ContentHeaders(variant, m, h, p.bytes)
             /\ reqBody' = [present |-> p.present, bytes |-> p.bytes]
             /\ bodyConsumed' = FALSE
             /\ reqHeader' = SetHeaders(headerFields')
             /\ StartLoop

\* HTTPreq can be called on a fresh executor and, when the executor is
\* reused, after an earlier call has returned
Callable ==
    \/ pc = "ready"
    \/ scope = "reuse" /\ pc = "returned" /\ calls < MaxCalls

\* HTTPreq() of v1
HTTPreqV1 ==
    /\ Callable
    /\ calls' = calls + 1
    /\ variant = "v1"
    /\ BuildRequest(method, body, body, headerFields)
    /\ out' = NoOut
    /\ UNCHANGED <<libVars, scope, variant, ctxDone, inFlight, timeout, client, url, method, body,
                   resp, respText, argVars>>

\* HTTPreq(method, url, body, header) of v2
HTTPreqV2(m, u, b, h) ==
    /\ Callable
    /\ calls' = calls + 1
    /\ variant = "v2"
    /\ argURL' = u /\ argMethod' = m /\ argBody' = b /\ argHeader' = h
    /\ IF u.isNil
       THEN /\ pc' = "panicked"
            /\ err' = Panic("url.Scheme")
            /\ UNCHANGED <<client, url, method, headerFields, reqVars, loopVars>>
       ELSE /\ client' = ClientFor(u)
            /\ method' = DefaultMethod(m)
            /\ url' = u
            /\ BuildRequest(DefaultMethod(m), b, body, DefaultHeader(h))
    /\ out' = NoOut
    /\ UNCHANGED <<libVars, scope, variant, ctxDone, inFlight, timeout, body, resp, respText>>

\* HTTPreq(method, url, body, header) of v3: r.url is never assigned, and
\* the Debug call evaluates r.url.String()
HTTPreqV3(m, u, b, h) ==
    /\ Callable
    /\ calls' = calls + 1
    /\ variant = "v3"
    /\ argURL' = u /\ argMethod' = m /\ argBody' = b /\ argHeader' = h
    /\ IF u.isNil
       THEN /\ pc' = "panicked"
            /\ err' = Panic("url.Scheme")
            /\ UNCHANGED <<client, method, headerFields, reqVars, loopVars>>
       ELSE /\ client' = ClientFor(u)
            /\ method' = DefaultMethod(m)
            /\ IF url.isNil
               THEN /\ pc' = "panicked"
                    /\ err' = Panic("r.url.String()")
                    /\ headerFields' = DefaultHeader(h)
                    /\ UNCHANGED <<reqVars, loopVars>>
               ELSE BuildRequest(DefaultMethod(m), b, body, DefaultHeader(h))
    /\ out' = NoOut
    /\ UNCHANGED <<libVars, scope, variant, ctxDone, inFlight, timeout, url, body, resp, respText>>

\* ---------------------------------------------------------- the retry loop
Min(a, b) == IF a < b THEN a ELSE b

\* the clock after d more seconds
Later(d) == Min(elapsed + d, ElapsedCap)

\* how long an attempt takes: no time, or the whole r.client.Timeout
AttemptSecs(t) == {0, t}

\* the number of attempts of an exchange the model follows
AttemptLimit == IF scope = "deep" THEN MaxAttempts ELSE MaxShallow

\* a target the transport can dial
Dialable(u) == u.Scheme \in {"http", "https"}

\* failures that happen before the request is written to a connection
PreConnectTexts ==
    { "connection refused", "net/http: TLS handshake timeout",
      "http2: no cached connection was available", "no such host" }
BeforeWrite(msg) == \E t \in PreConnectTexts : Contains(msg, t)

\* what an attempt hands to the transport: the bytes left in the reader of
\* httpReq.Body, which is built once, before the loop
SendPayload ==
    IF reqBody.present /\ ~bodyConsumed THEN reqBody.bytes ELSE <<>>

\* the error of a request whose context is done
ContextCanceled == <<"context canceled">>

\* the errors r.client.Do can return for target u; done: the context of the
\* request is done
DoErrors(u, done) ==
    IF ~Dialable(u) THEN {UnsupportedScheme}
    ELSE IF done THEN {ContextCanceled}
    ELSE TransportErrors

\* an attempt that starts while another one is still in flight
SendNoWait ==
    /\ pc \in {"loop", "inflight"}
    /\ attempts + inFlight < AttemptLimit
    /\ pc' = "inflight"
    /\ inFlight' = inFlight + 1
    /\ UNCHANGED <<libVars, calls, scope, variant, ctxDone, execVars, resp, respText, argVars, reqVars,
                   loopVars, err, out>>

\* r.client.Do(httpReq) is called: the attempt is in flight until it returns
Send ==
    /\ pc = "loop"
    /\ attempts + inFlight < AttemptLimit
    /\ pc' = "inflight"
    /\ inFlight' = inFlight + 1
    /\ UNCHANGED <<libVars, calls, scope, variant, ctxDone, execVars, resp, respText, argVars, reqVars,
                   loopVars, err, out>>

\* the context given to NewReqResp is cancelled while an attempt is in flight
CtxCancel ==
    /\ pc = "inflight"
    /\ ~ctxDone
    /\ ctxDone' = TRUE
    /\ UNCHANGED <<libVars, calls, scope, variant, pc, inFlight, execVars, resp, respText, argVars,
                   reqVars, loopVars, err, out>>

\* r.resp, err = r.client.Do(httpReq) returns: the bookkeeping common to all
\* outcomes
Do(consume) ==
    /\ pc = "inflight"
    /\ inFlight' = inFlight - 1
    /\ attempts' = attempts + 1
    /\ wire' = SendPayload
    /\ bodyConsumed' = (bodyConsumed \/ (reqBody.present /\ consume))
    /\ UNCHANGED <<reqBody, reqHeader>>

\* a backoff that holds at the ceiling instead of starting over
NextSecondsHold(s) == IF s + s > ten THEN ten ELSE s + s

\* seconds += seconds; if seconds > ten { seconds = one }
NextSeconds(s) == IF s + s > ten THEN one ELSE s + s

\* the continuation test with && for ||
ShouldRetryAnd(r, el, t) == r > 0 /\ el > t

\* the continuation test giving up one retry early
ShouldRetryOffByOne(r, el, t) == r > 1 \/ el > t

\* if retries > 0 || time.Since(start) > *r.timeout { continue }
ShouldRetry(r, el, t) == r > 0 \/ el > t

\* an attempt that fails with one of the six retryable texts: sleep,
\* decrement, double, then continue or return the error
DoRetryableError(e, d, consume) ==
    /\ Dialable(url)
    /\ e \in DoErrors(url, ctxDone)
    /\ IsRetryable(e)
    /\ BeforeWrite(e) => ~consume
    /\ Do(consume)
    /\ resp' = NilResp
    /\ lastErr' = Err("transport", e)
    /\ sleeps' = Append(sleeps, seconds)
    /\ elapsed' = Later(d + seconds)
    /\ retries' = retries - 1
    /\ seconds' = NextSeconds(seconds)
    /\ IF ShouldRetry(retries', elapsed', timeout)
       THEN pc' = "loop" /\ err' = NoError
       ELSE pc' = "returned" /\ err' = Err("transport", e)
    /\ UNCHANGED <<libVars, calls, scope, variant, ctxDone, execVars, respText, argVars, out>>

\* an attempt that fails with any other error: return err
DoTerminalError(e, consume) ==
    /\ e \in DoErrors(url, ctxDone)
    /\ Dialable(url) => ~IsRetryable(e)
    /\ (BeforeWrite(e) \/ ~Dialable(url)) => ~consume
    /\ Do(consume)
    /\ resp' = NilResp
    /\ lastErr' = Err("transport", e)
    /\ pc' = "returned"
    /\ err' = Err("transport", e)
    /\ UNCHANGED <<libVars, calls, scope, variant, ctxDone, execVars, respText, argVars, retries, seconds,
                   elapsed, sleeps, out>>

\* getRespBody: read r.resp.Body to its end and close it (deferred); v3
\* turns the text null into the empty text
getRespBody(v, rp) ==
    IF rp.isNil
    THEN [panic |-> TRUE, ok |-> FALSE, text |-> "", resp |-> rp]
    ELSE IF rp.closed \/ ~rp.readable
    THEN [panic |-> FALSE, ok |-> FALSE, text |-> "",
          resp |-> [rp EXCEPT !.closed = TRUE,
                              !.reads = IF rp.closed THEN @ ELSE @ + 1]]
    ELSE [panic |-> FALSE, ok |-> TRUE,
          text |-> IF v = "v3" /\ rp.Body = "null" THEN "" ELSE rp.Body,
          resp |-> [rp EXCEPT !.closed = TRUE, !.reads = @ + 1]]

ReadErrorText == <<"unexpected EOF">>

\* a success test that forgets the method
IsSuccessAnyMethod(code, m) == code \in {200, 201, 204}

\* StatusCode == 200 || (StatusCode == 201 && method == Post) ||
\* (StatusCode == 204 && method == Delete)
IsSuccess(code, m) ==
    \/ code = 200
    \/ (code = 201 /\ m = Post)
    \/ (code = 204 /\ m = Delete)

\* an attempt that receives a response: read the body, classify the status
DoResponse(code, text, canRead) ==
    /\ Dialable(url)
    /\ ~ctxDone
    /\ code \in StatusCodes
    /\ text \in ResponseBodies
    /\ Do(TRUE)
    /\ LET g == getRespBody(variant, Response(code, text, canRead))
       IN  /\ resp' = g.resp
           /\ IF ~g.ok
              THEN /\ err' = readingResponseBodyError(ReadErrorText)
                   /\ UNCHANGED respText
              ELSE /\ respText' = Text(g.text)
                   /\ err' = IF IsSuccess(code, method)
                             THEN NoError
                             ELSE requestError(<<"failed:", g.resp.Status, g.text>>)
    /\ lastErr' = NoError
    /\ pc' = "returned"
    /\ UNCHANGED <<libVars, calls, scope, variant, ctxDone, execVars, argVars, retries, seconds, elapsed,
                   sleeps, out>>

\* --------------------------------------------------------------- accessors
\* RespBody without the cache: every call reads the response body
RespBodyNoCache ==
    /\ pc \in {"ready", "returned"}
    /\ LET g == getRespBody(variant, resp)
       IN  IF g.panic
           THEN /\ pc' = "panicked"
                /\ err' = Panic("r.resp.Body")
                /\ UNCHANGED <<resp, respText, out>>
           ELSE /\ resp' = g.resp
                /\ respText' = IF g.ok THEN Text(g.text) ELSE respText
                /\ out' = [op |-> "RespBody",
                           text |-> IF g.ok THEN respText' ELSE NilText,
                           code |-> 0]
                /\ UNCHANGED <<pc, err>>
    /\ UNCHANGED <<libVars, calls, scope, variant, ctxDone, inFlight, execVars, argVars, reqVars,
                   loopVars>>

\* RespBody: the cached text, or a read of the response body
RespBody ==
    /\ pc \in {"ready", "returned"}
    /\ IF ~respText.isNil
       THEN /\ out' = [op |-> "RespBody", text |-> respText, code |-> 0]
            /\ UNCHANGED <<pc, err, resp, respText>>
       ELSE LET g == getRespBody(variant, resp)
            IN  IF g.panic
                THEN /\ pc' = "panicked"
                     /\ err' = Panic("r.resp.Body")
                     /\ UNCHANGED <<resp, respText, out>>
                ELSE /\ resp' = g.resp
                     /\ respText' = IF g.ok THEN Text(g.text) ELSE respText
                     /\ out' = [op |-> "RespBody", text |-> respText', code |-> 0]
                     /\ UNCHANGED <<pc, err>>
    /\ UNCHANGED <<libVars, calls, scope, variant, ctxDone, inFlight, execVars, argVars, reqVars, loopVars>>

\* RespCode: r.resp.StatusCode
RespCode ==
    /\ pc \in {"ready", "returned"}
    /\ IF resp.isNil
       THEN /\ pc' = "panicked"
            /\ err' = Panic("r.resp.StatusCode")
            /\ UNCHANGED out
       ELSE /\ out' = [op |-> "RespCode", text |-> NilText, code |-> resp.StatusCode]
            /\ UNCHANGED <<pc, err>>
    /\ UNCHANGED <<libVars, calls, scope, variant, ctxDone, inFlight, execVars, resp, respText, argVars, reqVars, loopVars>>

\* what CloseBody leaves behind: nothing, or the line it prints when
\* r.resp.Body.Close() fails
Closed == [op |-> "CloseBody", text |-> NilText, code |-> 0]
CloseFailed == [op |-> "CloseBody: failed to close response body",
                text |-> NilText, code |-> 0]

\* CloseBody without the test of r.resp
CloseBodyUnchecked(fails) ==
    /\ pc \in {"ready", "returned"}
    /\ IF resp.isNil
       THEN /\ pc' = "panicked"
            /\ err' = Panic("r.resp.Body")
            /\ out' = Closed
            /\ UNCHANGED resp
       ELSE /\ resp' = [resp EXCEPT !.closed = TRUE]
            /\ out' = IF fails THEN CloseFailed ELSE Closed
            /\ UNCHANGED <<pc, err>>
    /\ UNCHANGED <<libVars, calls, scope, variant, ctxDone, inFlight, execVars, respText, argVars,
                   reqVars, loopVars>>

\* CloseBody: if r.resp != nil and r.resp.Body != nil, close the body; an
\* error of Close is printed and dropped
CloseBody(fails) ==
    /\ pc \in {"ready", "returned"}
    /\ IF resp.isNil
       THEN /\ ~fails
            /\ out' = Closed
            /\ UNCHANGED resp
       ELSE /\ resp' = [resp EXCEPT !.closed = TRUE]
            /\ out' = IF fails THEN CloseFailed ELSE Closed
    /\ UNCHANGED <<libVars, calls, scope, variant, ctxDone, inFlight, pc, err, execVars, respText,
                   argVars, reqVars, loopVars>>

\* ------------------------------------------------------------ specification
Next ==
    \/ \E u \in URLArgs(scope), m \in MethodArgs(scope), b \in BodyArgs(scope),
          h \in HeaderArgs(scope), t \in TimeoutArgs : NewReqRespV1(u, m, b, h, t)
    \/ \E t \in TimeoutArgs : NewReqRespV23(t)
    \/ HTTPreqV1
    \/ Send
    \/ CtxCancel
    \/ \E m \in MethodArgs(scope), u \in URLArgs(scope), b \in BodyArgs(scope),
          h \in HeaderArgs(scope) : HTTPreqV2(m, u, b, h)
    \/ \E m \in MethodArgs(scope), u \in URLArgs(scope), b \in BodyArgs(scope),
          h \in HeaderArgs(scope) : HTTPreqV3(m, u, b, h)
    \/ \E e \in TransportErrors \cup {ContextCanceled}, d \in AttemptSecs(timeout),
          c \in BOOLEAN : DoRetryableError(e, d, c)
    \/ \E e \in TransportErrors \cup {UnsupportedScheme, ContextCanceled},
          c \in BOOLEAN : DoTerminalError(e, c)
    \/ \E code \in StatusCodes, text \in ResponseBodies, r \in BOOLEAN :
          DoResponse(code, text, r)
    \/ RespBody
    \/ RespCode
    \/ \E f \in BOOLEAN : CloseBody(f)

Spec == Init /\ [][Next]_vars

\* the same program, followed through the whole retry budget
SpecRetry == InitRetry /\ [][Next]_vars

\* the same program, with several exchanges on one executor
SpecReuse == InitReuse /\ [][Next]_vars

\* ================================================================== claims
\* the method an exchange was asked to use (an absent method means GET)
AskedMethod == IF argMethod = NilMethod THEN "GET" ELSE argMethod

\* the success set of a method, as the specification states it
InSuccessSet(code, m) ==
    \/ code = 200
    \/ (code = 201 /\ m = "POST")
    \/ (code = 204 /\ m = "DELETE")

\* the error text matches one of the six recognised retryable substrings
MatchesSixTexts(msg) ==
    \E i \in DOMAIN msg :
        msg[i] \in { "connection refused",
                     "http2: no cached connection was available",
                     "net/http: TLS handshake timeout",
                     "i/o timeout",
                     "unexpected EOF",
                     "Client.Timeout exceeded while awaiting headers" }

\* the latest attempt received a response and its body was read to the end
ResponseReceived == ~resp.isNil /\ resp.readable /\ attempts >= 1

\* HTTPreq has given up: it returned the error of a retryable failure
GaveUp == pc = "returned" /\ err.kind = "transport" /\ MatchesSixTexts(err.msg)

\* C1: retries are bounded: an exchange never makes more transport attempts
\* than the initial retry budget of 30 allows, whatever the timeout.
C1_BoundedRetries == attempts <= 30

\* a returned success after N retryable failures: nil error, the body text of
\* the answering attempt, and exactly N sleeps
SuccessAfterFailures ==
    (pc = "returned" /\ ResponseReceived /\ InSuccessSet(resp.StatusCode, AskedMethod))
        => /\ err = NoError
           /\ respText = Text(resp.Body)
           /\ Len(sleeps) = attempts - 1
           /\ (out.op = "RespCode" => out.code = resp.StatusCode)
           /\ (out.op = "RespBody" => out.text = Text(resp.Body))

\* C2 (as stated): for every N >= 0 and every timeout, N retryable failures
\* followed by a success end in that success after exactly N sleeps; so
\* HTTPreq never gives up before the success arrives.
C2_Original == SuccessAfterFailures /\ ~GaveUp

\* C2 (amended): for every N with 0 <= N <= 29 and every timeout, N retryable
\* failures followed by a success end in that success after exactly N sleeps;
\* HTTPreq gives up only after 30 or more failed attempts.
C2_SuccessAfterRetries == SuccessAfterFailures /\ (GaveUp => Len(sleeps) >= 30)

\* C2 witness: 29 retryable failures, then a 200 that HTTPreq returned
C2_Witness ==
    /\ pc = "returned" /\ err = NoError /\ Len(sleeps) = 29
    /\ ResponseReceived /\ resp.StatusCode = 200

\* C3: after a retryable failure (sleep, decrement and backoff update done)
\* HTTPreq issues another attempt if and only if retries > 0 or the elapsed
\* time exceeds the timeout; otherwise it returns the transport error.
C3_RetryIff ==
    [][ (pc = "inflight" /\ Len(sleeps') = Len(sleeps) + 1)
          => /\ (pc' = "loop") <=> (retries' > 0 \/ elapsed' > timeout)
             /\ retries' = retries - 1
             /\ pc' # "loop" =>
                   (pc' = "returned" /\ err' = lastErr' /\ err'.kind = "transport") ]_vars

\* C3 witness: the loop goes on with a budget of zero or less, the timeout
\* being exceeded
C3_Witness == pc = "loop" /\ retries <= 0 /\ elapsed > timeout /\ attempts > 30

\* the sawtooth 1, 2, 4, 8, 1, 2, 4, 8, ...
Sawtooth(k) == <<1, 2, 4, 8>>[((k - 1) % 4) + 1]

\* C4: the k-th backoff sleep of an exchange lasts 1, 2, 4, 8, 1, 2, 4, 8, ...
\* seconds; the delay is always one of 1, 2, 4, 8 and never exceeds 10.
C4_SawtoothBackoff ==
    /\ \A k \in DOMAIN sleeps : sleeps[k] = Sawtooth(k)
    /\ pc = "loop" => (seconds \in {1, 2, 4, 8} /\ seconds = Sawtooth(Len(sleeps) + 1))

\* C4 witness: two full periods of the sawtooth have been slept
C4_Witness == Len(sleeps) >= 9 /\ sleeps[5] = 1 /\ sleeps[8] = 8

\* C5: a transport error matching none of the six retryable substrings is
\* returned at once: no sleep, no further attempt, whatever budget remains.
C5_TerminalError ==
    [][ /\ (pc = "inflight" /\ attempts' = attempts + 1 /\ lastErr'.kind = "transport"
             /\ ~MatchesSixTexts(lastErr'.msg))
           => (pc' = "returned" /\ err' = lastErr' /\ sleeps' = sleeps
               /\ retries' = retries)
        /\ (pc = "returned" /\ err.kind = "transport" /\ ~MatchesSixTexts(err.msg))
           => (attempts' = attempts /\ sleeps' = sleeps) ]_vars

\* C5 witness: a non-retryable error returned with part of the budget used
C5_Witness ==
    /\ pc = "returned" /\ err.kind = "transport" /\ ~MatchesSixTexts(err.msg)
    /\ retries = 25 /\ Len(sleeps) = 5 /\ attempts = 6

C8_InvalidTarget ==
    ((argURL.isNil \/ argURL = EmptyURL) /\ pc \in {"invalid", "loop", "returned", "panicked"})
        => /\ attempts = 0
           /\ pc # "loop" => err = ErrorInvalidURL

\* C9: for a POST exchange with a structured (non-string) body, the payload
\* sent on the wire is the JSON serialisation of that body argument.
C9_StructuredBody ==
    (attempts = 1 /\ AskedMethod = "POST" /\ argBody.kind = "map")
        => wire = <<"{", Quote, argBody.key, Quote, ":", Digits[argBody.val + 1], "}">>

\* C10: for a POST exchange with a string body, the payload sent on the wire
\* is that string byte for byte; it is not JSON-encoded again.
C10_StringBody ==
    (attempts = 1 /\ AskedMethod = "POST" /\ argBody.kind = "string")
        => wire = argBody.chars

\* http.NewRequestWithContext has returned a request for the exchange
RequestBuilt == pc \in {"loop", "inflight"} \/ attempts >= 1

\* C11: every POST request carries the header Content-Type: application/json
\* and a Content-Length header equal to the byte length of the payload,
\* whatever header mapping the caller supplied.
C11_ContentHeaders ==
    (RequestBuilt /\ AskedMethod = "POST")
        => /\ reqHeader["Content-Type"] = "application/json"
           /\ reqHeader["Content-Length"] = DecStr(Len(reqBody.bytes))

\* C12: for the result of an exchange, every call of RespBody returns the
\* same text (the one recorded for the exchange), and the response stream
\* is read once in total, by HTTPreq, and never again by a later RespBody.
C12_BodyReadOnce ==
    [][ (pc = "returned" /\ pc' = "returned" /\ ~resp.isNil)
          => /\ respText' = respText
             /\ resp.reads = 1 /\ resp'.reads = 1
             /\ (out'.op = "RespBody" => out'.text = respText) ]_vars

\* C12 witness: RespBody has returned the text of a response that was read
\* once and is closed
C12_Witness ==
    /\ pc = "returned" /\ out.op = "RespBody" /\ out.text = Text("hi")
    /\ resp.reads = 1 /\ resp.closed /\ resp.StatusCode = 201

\* C13: no call of NewReqResp, HTTPreq, RespBody, RespCode or CloseBody
\* panics when the target is well formed (the only panic the model allows
\* here is the one of a nil target).
C13_NoPanic == pc = "panicked" => err = Panic("url.Scheme")

\* C14: when the context is cancelled while an attempt is in flight, that
\* attempt returns without a response, HTTPreq returns an error, and no
\* attempt is issued afterwards.
C14_Cancellation ==
    [][ /\ (pc = "inflight" /\ ctxDone /\ attempts' = attempts + 1)
           => (pc' = "returned" /\ err'.kind # "nil" /\ resp'.isNil)
        /\ (ctxDone /\ pc # "inflight")
           => (attempts' = attempts /\ inFlight' = inFlight /\ pc' # "inflight") ]_vars

\* C14 witness: the second attempt was cancelled in flight, and HTTPreq
\* returned the error of the context
C14_Witness ==
    /\ pc = "returned" /\ ctxDone /\ attempts = 2 /\ Len(sleeps) = 1
    /\ err = Err("transport", ContextCanceled) /\ inFlight = 0

\* the transport calls of the exchange that are active: in flight, or
\* completed with a response that is not closed yet
Active == inFlight + (IF ~resp.isNil /\ ~resp.closed THEN 1 ELSE 0)

\* C15 as stated: during an exchange exactly one transport call is active at
\* any time.
C15_Original == pc \in {"loop", "inflight"} => Active = 1

\* C15: at most one transport call is active at any time, and an attempt
\* starts only when no attempt is in flight.
C15_OneAtATime ==
    [][ /\ Active <= 1 /\ Active' <= 1
        /\ inFlight' > inFlight => inFlight = 0 ]_vars

\* C15 witness: a second attempt in flight, after the first one returned
C15_Witness == pc = "inflight" /\ inFlight = 1 /\ attempts = 1 /\ Active = 1

\* C16: CloseBody returns normally in every state (before any exchange,
\* after an exchange without a response, after a completed exchange,
\* repeatedly); a failure to close is only printed, and the call changes
\* neither the status code nor the body text recorded for the exchange.
C16_CloseBodySafe ==
    [][ (out' \in {Closed, CloseFailed} /\ out' # out)
          => /\ pc' = pc
             /\ err' = err
             /\ respText' = respText
             /\ resp'.isNil = resp.isNil
             /\ resp'.StatusCode = resp.StatusCode ]_vars

\* C16 witness: CloseBody after an exchange that failed without a response
C16_Witness ==
    /\ pc = "returned" /\ out = Closed /\ resp.isNil /\ attempts >= 1
    /\ err.kind = "transport"

\* the body text the specification records for a response body
NormalisedBody(t) == IF t = "null" THEN "" ELSE t

\* C17: a response body that is exactly null is recorded, and returned by
\* RespBody, as the empty text; every other body text is unchanged.
C17_NullBody ==
    (pc = "returned" /\ ResponseReceived)
        => /\ respText = Text(NormalisedBody(resp.Body))
           /\ out.op = "RespBody" => out.text = Text(NormalisedBody(resp.Body))

\* C18: a request body is attached if and only if the method is POST; GET
\* and DELETE exchanges, and exchanges without a method, send no body even
\* when a body argument is given.
C18_BodyOnlyForPost ==
    RequestBuilt
        => /\ reqBody.present <=> AskedMethod = "POST"
           /\ (AskedMethod # "POST" /\ attempts >= 1) => wire = <<>>

\* C18 witness: an exchange without a method, given a structured body, has
\* sent an attempt without payload
C18_Witness ==
    /\ attempts = 1 /\ argMethod = NilMethod /\ argBody = MapBody("a", 1)
    /\ ~reqBody.present /\ wire = <<>>

\* C19: a POST exchange whose body cannot be serialised to JSON returns an
\* error wrapping ErrorRequestBodyInvalid, without any transport attempt.
C19_UnserialisableBody ==
    (/\ AskedMethod = "POST" /\ argBody.kind = "chan" /\ Dialable(argURL)
     /\ pc \in {"loop", "inflight", "returned"})
        => /\ pc = "returned"
           /\ err.kind = "ErrorRequestBodyInvalid"
           /\ attempts = 0

\* the headers HTTPreq itself adds to a POST request
ContentHeaderNames == {"Content-Type", "Content-Length"}

\* the value the caller's header mapping holds for a name
CallerValue(n) == IF argHeader.isNil THEN Absent ELSE argHeader.map[n]

\* C20: of the caller's header mapping, a header with an empty value is
\* never set on the request, and every header with a non-empty value is set
\* with that value (apart from the content headers of a POST).
C20_NonEmptyHeaders ==
    RequestBuilt
        => \A n \in HeaderNames :
              \/ AskedMethod = "POST" /\ n \in ContentHeaderNames
              \/ IF CallerValue(n) \in {Absent, ""}
                 THEN reqHeader[n] = Absent
                 ELSE reqHeader[n] = CallerValue(n)

\* C20 witness: a request built from a mapping with a non-empty and an
\* empty value has been sent
C20_Witness ==
    /\ attempts = 1 /\ argHeader = HeaderOf(CallerHeader)
    /\ reqHeader["Accept"] = "a" /\ reqHeader["Token"] = Absent
    /\ reqHeader["Content-Type"] = "text/plain"

\* C23: in a POST exchange every attempt, each retry included, hands the
\* complete request payload to the transport.
C23_FullPayloadEveryAttempt ==
    (AskedMethod = "POST" /\ reqBody.present /\ attempts >= 1)
        => wire = reqBody.bytes

\* C24: on an executor used for several exchanges, RespBody after a call of
\* HTTPreq that ended in a transport error never returns the text recorded
\* by an earlier exchange.
C24_RespBodyOfThisCall ==
    (pc = "returned" /\ calls >= 2 /\ err.kind = "transport"
     /\ out.op = "RespBody")
        => out.text.isNil

\* ============================================================ package k8s
\* ------------------------------------------------- the handle (client.go)
\* a nil *rest.Config, kubernetes.Interface or ctrlclient.Client
Nil == "nil"
\* the configurations, kube clients and controller clients a caller supplies
Configs == {"cfgA", "cfgB"}
KubeClients == {"kcA", "kcB"}
CtrlClients == {"ccA", "ccB"}
\* the result of rest.InClusterConfig and of clientcmd.BuildConfigFromFlags
InClusterConfig == "inCluster"
ConfigFromFlags == "kubeconfig"
\* the result of kubernetes.NewForConfig and of ctrlclient.New
NewForConfig == "kcBuilt"
CtrlClientNew == "ccBuilt"

\* the handle before any setter ran
EmptyK8s == [config |-> Nil, client |-> Nil, cc |-> Nil]
\* what a setter leaves: the handle, whether it returned an error, whether
\* it panicked
Outcome(h, e, p) == [h |-> h, err |-> e, panic |-> p]

\* SetKubeConfig(config); inCluster, fromFlags: whether rest.InClusterConfig
\* and clientcmd.BuildConfigFromFlags succeed.  k.config receives the result
\* of BuildConfigFromFlags also when it failed (nil).
SetKubeConfig(h, cfg, inCluster, fromFlags) ==
    IF cfg # Nil THEN Outcome([h EXCEPT !.config = cfg], FALSE, FALSE)
    ELSE IF inCluster THEN Outcome([h EXCEPT !.config = InClusterConfig], FALSE, FALSE)
    ELSE IF fromFlags THEN Outcome([h EXCEPT !.config = ConfigFromFlags], FALSE, FALSE)
    ELSE Outcome([h EXCEPT !.config = Nil], TRUE, FALSE)

\* SetKubeClient(client); built: whether kubernetes.NewForConfig succeeds.
\* NewForConfig copies *k.config, a nil configuration panics; k.client
\* receives its result also when it failed.
SetKubeClient(h, kc, built) ==
    IF kc # Nil THEN Outcome([h EXCEPT !.client = kc], FALSE, FALSE)
    ELSE IF h.config = Nil THEN Outcome(h, FALSE, TRUE)
    ELSE IF built THEN Outcome([h EXCEPT !.client = NewForConfig], FALSE, FALSE)
    ELSE Outcome([h EXCEPT !.client = Nil], TRUE, FALSE)

\* SetCtrlClient(client, scheme); built: whether ctrlclient.New succeeds (it
\* fails for a nil configuration).  k.cc receives its result also when it
\* failed.
SetCtrlClient(h, kc, built) ==
    IF kc # Nil THEN Outcome([h EXCEPT !.cc = kc], FALSE, FALSE)
    ELSE IF h.config # Nil /\ built
    THEN Outcome([h EXCEPT !.cc = CtrlClientNew], FALSE, FALSE)
    ELSE Outcome([h EXCEPT !.cc = Nil], TRUE, FALSE)

\* NewK8s: the three setters in turn; an error of SetKubeConfig or
\* SetKubeClient is returned, an error of SetCtrlClient is only logged
NewK8s(cfg, ctrlClient, kc, inCluster, fromFlags, built, ccBuilt) ==
    LET a == SetKubeConfig(EmptyK8s, cfg, inCluster, fromFlags)
        b == SetKubeClient(a.h, kc, built)
        c == SetCtrlClient(b.h, ctrlClient, ccBuilt)
    IN  IF a.err THEN [a EXCEPT !.h = EmptyK8s]
        ELSE IF b.err \/ b.panic THEN [b EXCEPT !.h = EmptyK8s]
        ELSE Outcome(c.h, FALSE, FALSE)

GetKubeConfig == kConfig
GetKubeClient == kClient
GetCtrlClient == kCC

\* the handle as a record
K8sHandle == [config |-> kConfig, client |-> kClient, cc |-> kCC]

notK8sVars == <<scope, httpVars, logVars, ghVars, waitVars, podVars, ecrVars, awsVars>>

K8sCall(op, arg, o) == [op |-> op, arg |-> arg, err |-> o.err]

\* the state a call leaves
K8sReturn(op, arg, o) ==
    /\ kPc' = IF o.panic THEN "panicked" ELSE "ready"
    /\ kConfig' = o.h.config
    /\ kClient' = o.h.client
    /\ kCC' = o.h.cc
    /\ kCall' = K8sCall(op, arg, o)
    /\ UNCHANGED notK8sVars

K8sNewK8s(cfg, ctrlClient, kc, inCluster, fromFlags, built, ccBuilt) ==
    /\ kPc = "new"
    /\ LET o == NewK8s(cfg, ctrlClient, kc, inCluster, fromFlags, built, ccBuilt)
       IN  /\ kPc' = IF o.panic THEN "panicked" ELSE IF o.err THEN "failed" ELSE "ready"
           /\ kConfig' = o.h.config
           /\ kClient' = o.h.client
           /\ kCC' = o.h.cc
           /\ kCall' = K8sCall("NewK8s", <<cfg, ctrlClient, kc>>, o)
           /\ kSet' = o.h
    /\ UNCHANGED notK8sVars

K8sSetKubeConfig(cfg, inCluster, fromFlags) ==
    /\ kPc = "ready"
    /\ LET o == SetKubeConfig(K8sHandle, cfg, inCluster, fromFlags)
       IN  /\ K8sReturn("SetKubeConfig", <<cfg>>, o)
           /\ kSet' = IF o.err THEN kSet ELSE [kSet EXCEPT !.config = o.h.config]

K8sSetKubeClient(kc, built) ==
    /\ kPc = "ready"
    /\ LET o == SetKubeClient(K8sHandle, kc, built)
       IN  /\ K8sReturn("SetKubeClient", <<kc>>, o)
           /\ kSet' = IF o.err \/ o.panic THEN kSet
                      ELSE [kSet EXCEPT !.client = o.h.client]

K8sSetCtrlClient(kc, built) ==
    /\ kPc = "ready"
    /\ LET o == SetCtrlClient(K8sHandle, kc, built)
       IN  /\ K8sReturn("SetCtrlClient", <<kc>>, o)
           /\ kSet' = IF o.err THEN kSet ELSE [kSet EXCEPT !.cc = o.h.cc]

InitK8s ==
    /\ scope = "k8s" /\ HTTPIdle
    /\ kPc = "new" /\ kConfig = Nil /\ kClient = Nil /\ kCC = Nil
    /\ kSet = EmptyK8s
    /\ kCall = [op |-> "none", arg |-> <<>>, err |-> FALSE]
    /\ LogIdle /\ GhIdle /\ WaitIdle /\ PodIdle /\ EcrIdle /\ AwsIdle

NextK8s ==
    \/ \E cfg \in Configs \cup {Nil}, cc \in CtrlClients \cup {Nil},
          kc \in KubeClients \cup {Nil}, i, f, b, c \in BOOLEAN :
          K8sNewK8s(cfg, cc, kc, i, f, b, c)
    \/ \E cfg \in Configs \cup {Nil}, i, f \in BOOLEAN : K8sSetKubeConfig(cfg, i, f)
    \/ \E kc \in KubeClients \cup {Nil}, b \in BOOLEAN : K8sSetKubeClient(kc, b)
    \/ \E cc \in CtrlClients \cup {Nil}, b \in BOOLEAN : K8sSetCtrlClient(cc, b)

SpecK8s == InitK8s /\ [][NextK8s]_vars

\* C21: NewK8s with a non-nil config, controller client and kube client
\* returns no error and the getters return the supplied values; after any
\* sequence of setter calls each getter returns the value of the most recent
\* successful set of its own field, and a setter never changes the other two
\* fields.
C21_SetGetRoundTrip ==
    [][ kPc' = "ready"
          => /\ (kCall'.op = "NewK8s" /\ Nil \notin {kCall'.arg[1], kCall'.arg[2], kCall'.arg[3]})
                   => (~kCall'.err /\ kCall'.arg = <<GetKubeConfig', GetCtrlClient', GetKubeClient'>>)
             /\ GetKubeConfig' = kSet'.config
             /\ GetKubeClient' = kSet'.client
             /\ GetCtrlClient' = kSet'.cc
             /\ kCall'.op = "SetKubeConfig" => (kClient' = kClient /\ kCC' = kCC)
             /\ kCall'.op = "SetKubeClient" => (kConfig' = kConfig /\ kCC' = kCC)
             /\ kCall'.op = "SetCtrlClient" => (kConfig' = kConfig /\ kClient' = kClient) ]_vars

\* ======================================================== package logging
\* A string that holds a path is a sequence of tokens: the separator "/"
\* or a name (a non-empty string without separator).
\* largest value of SOURCE_PATH_DEPTH the model gives
MaxDepth == 5

Slash == "/"
\* slog.SourceKey
SourceKey == "source"
MessageKey == "msg"

\* index of the last separator of p, 0 when it has none
RECURSIVE LastSlash(_)
LastSlash(p) ==
    IF p = <<>> THEN 0
    ELSE IF p[Len(p)] = Slash THEN Len(p)
    ELSE LastSlash(SubSeq(p, 1, Len(p) - 1))

\* p without its trailing separators
RECURSIVE StripSlashes(_)
StripSlashes(p) ==
    IF p # <<>> /\ p[Len(p)] = Slash
    THEN StripSlashes(SubSeq(p, 1, Len(p) - 1))
    ELSE p

\* filepath.Clean, for a path without ".", ".." and repeated separators: the
\* trailing separator goes unless the path is the root; "" becomes "."
Clean(p) ==
    IF p = <<>> THEN <<".">>
    ELSE IF Len(p) > 1 /\ p[Len(p)] = Slash THEN SubSeq(p, 1, Len(p) - 1)
    ELSE p

\* filepath.Dir: Clean of the path up to and including its last separator
Dir(p) == Clean(SubSeq(p, 1, LastSlash(p)))

\* filepath.Base: the last element; "." for "", "/" for separators only
Base(p) ==
    IF p = <<>> THEN <<".">>
    ELSE LET q == StripSlashes(p)
         IN  IF q = <<>> THEN <<Slash>>
             ELSE SubSeq(q, LastSlash(q) + 1, Len(q))

\* index of the first separator of p, 0 when it has none
RECURSIVE FirstSlash(_)
FirstSlash(p) ==
    IF p = <<>> THEN 0
    ELSE IF Head(p) = Slash THEN 1
    ELSE LET i == FirstSlash(Tail(p)) IN IF i = 0 THEN 0 ELSE i + 1

\* strings.Split(p, "/"): the strings between the separators
RECURSIVE Split(_)
Split(p) ==
    LET i == FirstSlash(p)
    IN  IF i = 0 THEN <<p>>
        ELSE <<SubSeq(p, 1, i - 1)>> \o Split(SubSeq(p, i + 1, Len(p)))

\* strings.Join(elems, "/")
RECURSIVE Join(_)
Join(elems) ==
    IF elems = <<>> THEN <<>>
    ELSE IF Len(elems) = 1 THEN elems[1]
    ELSE elems[1] \o <<Slash>> \o Join(Tail(elems))

\* the environment variable SOURCE_PATH_DEPTH: unset, or set to a text that
\* strconv.Atoi accepts (valid, with its value) or rejects
EnvUnset == [set |-> FALSE, valid |-> FALSE, value |-> 0]
EnvInvalid == [set |-> TRUE, valid |-> FALSE, value |-> 0]
EnvInt(n) == [set |-> TRUE, valid |-> TRUE, value |-> n]
Environments == {EnvUnset, EnvInvalid} \cup {EnvInt(n) : n \in -2..MaxDepth}

\* setSourcePathDepth()
setSourcePathDepth(env) ==
    IF env.set
    THEN IF ~env.valid THEN 0 ELSE env.value
    ELSE 0

\* a source file given by its form: absolute or not, the names of its
\* directories, its name; SourceFile is the string
SourceForms ==
    [abs : BOOLEAN,
     dirs : {<<>>, <<"c">>, <<"b", "c">>, <<"a", "b", "c">>},
     name : {"x.go"}]
RECURSIVE WithSlashes(_)
WithSlashes(names) ==
    IF names = <<>> THEN <<>>
    ELSE <<Head(names), Slash>> \o WithSlashes(Tail(names))
SourceFile(f) ==
    (IF f.abs THEN <<Slash>> ELSE <<>>) \o WithSlashes(f.dirs) \o <<f.name>>

\* function names as runtime.Frame reports them
SourceFunctions == {<<"main.f">>, <<"a", Slash, "b.f">>}

\* the value of an attribute: a *slog.Source ("ptr"), a slog.Source
\* ("struct"), or a string
SourceValues ==
    [kind : {"ptr", "struct"}, File : {SourceFile(f) : f \in SourceForms},
     Function : SourceFunctions, Line : {123}]
Attrs == [Key : {SourceKey, MessageKey}, Value : SourceValues]

\* setSourceName taking the first elements of the directory
setSourceNameFirst(a, env) ==
    IF a.Key = SourceKey /\ setSourcePathDepth(env) >= 0 /\ a.Value.kind = "ptr"
    THEN LET path == Split(Dir(a.Value.File))
             d == IF Len(path) < setSourcePathDepth(env)
                  THEN Len(path) ELSE setSourcePathDepth(env)
             includedPath == Join(SubSeq(path, 1, d))
             sep == IF Len(includedPath) > 0 THEN <<Slash>> ELSE <<>>
         IN  [a EXCEPT !.Value.File = includedPath \o sep \o Base(a.Value.File),
                       !.Value.Function = Base(a.Value.Function)]
    ELSE a

\* setSourceName(a), with the environment it reads
setSourceName(a, env) ==
    IF a.Key = SourceKey /\ setSourcePathDepth(env) >= 0 /\ a.Value.kind = "ptr"
    THEN LET path == Split(Dir(a.Value.File))
             d == IF Len(path) < setSourcePathDepth(env)
                  THEN Len(path) ELSE setSourcePathDepth(env)
             includedPath == Join(SubSeq(path, Len(path) - d + 1, Len(path)))
             sep == IF Len(includedPath) > 0 THEN <<Slash>> ELSE <<>>
         IN  [a EXCEPT !.Value.File = includedPath \o sep \o Base(a.Value.File),
                       !.Value.Function = Base(a.Value.Function)]
    ELSE a

notLogVars == <<scope, httpVars, k8sVars, ghVars, waitVars, podVars, ecrVars, awsVars>>

\* one call of SetSourceName
SetSourceName ==
    /\ lgPc = "call"
    /\ lgOut' = setSourceName(lgAttr, lgEnv)
    /\ lgPc' = "done"
    /\ UNCHANGED <<lgEnv, lgAttr, notLogVars>>

InitLog ==
    /\ scope = "logging" /\ HTTPIdle
    /\ lgPc = "call"
    /\ lgEnv \in Environments
    /\ lgAttr \in Attrs
    /\ lgOut = lgAttr
    /\ K8sIdle /\ GhIdle /\ WaitIdle /\ PodIdle /\ EcrIdle /\ AwsIdle

NextLog == SetSourceName

SpecLog == InitLog /\ [][NextLog]_vars

\* the form of the source file of the attribute given
FormOf(file) == CHOOSE f \in SourceForms : SourceFile(f) = file

\* the last n elements of a sequence
LastN(xs, n) == SubSeq(xs, Len(xs) - n + 1, Len(xs))

\* names joined by separators, an empty name adding nothing
RECURSIVE Joined(_)
Joined(names) ==
    IF names = <<>> THEN <<>>
    ELSE (IF Head(names) = "" THEN <<>> ELSE <<Head(names)>>)
         \o (IF Len(names) > 1 THEN <<Slash>> ELSE <<>>)
         \o Joined(Tail(names))

\* the depth in force
DepthOf(env) == IF env.set /\ env.valid THEN env.value ELSE 0

\* the elements of the directory of a file: its directory names, after an
\* empty element for an absolute path; the root alone gives two empty
\* elements, no directory gives "."
DirElements(f) ==
    IF f.abs THEN <<"">> \o (IF f.dirs = <<>> THEN <<"">> ELSE f.dirs)
    ELSE IF f.dirs = <<>> THEN <<".">> ELSE f.dirs

\* the file of the rewritten attribute, from the elements kept
Rewritten(f, elems) ==
    Joined(elems) \o (IF Joined(elems) # <<>> THEN <<Slash>> ELSE <<>>) \o <<f.name>>

\* the last token of a function name
BaseName(fn) == <<fn[Len(fn)]>>

\* the attribute is a source attribute the function rewrites
Rewrites == lgAttr.Key = SourceKey /\ lgAttr.Value.kind = "ptr" /\ DepthOf(lgEnv) >= 0

MaxPages == 3
\* calls of ListReleases the model follows in one GetActionsReleases
MaxRequests == 5

\* a release: its name and its publication time
Release(n, t) == [Name |-> n, PublishedAt |-> t]
\* the releases of result page p when it holds k of them
PageOf(p, k) == [i \in 1..k |-> Release(<<"v", p, i>>, 10 * p + i)]
\* the repositories: up to MaxPages pages, one to three releases on each
Servers ==
    UNION { [1..n -> {1, 2, 3}] : n \in 0..MaxPages }
PagesOf(sizes) == [p \in DOMAIN sizes |-> PageOf(p, sizes[p])]

\* Repositories.ListReleases(ctx, "actions", "runner", opts): page 0 is the
\* first page; NextPage is 0 on the last page
ListReleases(server, page) ==
    LET p == IF page = 0 THEN 1 ELSE page
    IN  [release |-> IF p \in DOMAIN server THEN server[p] ELSE <<>>,
         NextPage |-> IF p < Len(server) THEN p + 1 ELSE 0]

\* releasesInfo: for each name the time of the last release in the slice
\* that has it
ReleasesInfo(rs) ==
    [n \in {rs[i].Name : i \in DOMAIN rs} |->
        LET last == CHOOSE i \in DOMAIN rs :
                       /\ rs[i].Name = n
                       /\ \A j \in DOMAIN rs : rs[j].Name = n => j <= i
        IN  rs[last].PublishedAt]

NoReleases == [ok |-> FALSE, info |-> <<>>]

notGhVars == <<scope, httpVars, k8sVars, logVars, waitVars, podVars, ecrVars, awsVars>>

\* one turn of the loop of GetActionsReleases with a request that succeeds
GhListReleases ==
    /\ ghPc = "loop"
    /\ ghRequests < MaxRequests
    /\ ghRequests' = ghRequests + 1
    /\ LET r == ListReleases(ghServer, ghPage)
       IN  /\ ghReleases' = ghReleases \o r.release
           /\ IF r.NextPage # 0
              THEN /\ ghPc' = "returned"
                   /\ ghOut' = [ok |-> TRUE, info |-> ReleasesInfo(ghReleases')]
                   /\ UNCHANGED ghPage
              ELSE /\ ghPage' = r.NextPage
                   /\ UNCHANGED <<ghPc, ghOut>>
    /\ UNCHANGED <<ghServer, notGhVars>>

\* a request that fails: return nil and the error
GhListFails ==
    /\ ghPc = "loop"
    /\ ghRequests < MaxRequests
    /\ ghRequests' = ghRequests + 1
    /\ ghPc' = "returned"
    /\ ghOut' = NoReleases
    /\ UNCHANGED <<ghServer, ghPage, ghReleases, notGhVars>>

InitGithub ==
    /\ scope = "github" /\ HTTPIdle
    /\ ghPc = "loop"
    /\ ghServer \in {PagesOf(s) : s \in Servers}
    /\ ghPage = 0
    /\ ghReleases = <<>>
    /\ ghRequests = 0
    /\ ghOut = NoReleases
    /\ K8sIdle /\ LogIdle /\ WaitIdle /\ PodIdle /\ EcrIdle /\ AwsIdle

NextGithub == GhListReleases \/ GhListFails

SpecGithub == InitGithub /\ [][NextGithub]_vars

\* C25: GetActionsReleases makes no more requests than there are result
\* pages (one for an empty repository), and the map it returns holds the
\* name and publication time of every release on every page.
C25_AllReleases ==
    /\ ghRequests <= (IF Len(ghServer) = 0 THEN 1 ELSE Len(ghServer))
    /\ (ghPc = "returned" /\ ghOut.ok)
          => \A p \in DOMAIN ghServer : \A i \in DOMAIN ghServer[p] :
                /\ ghServer[p][i].Name \in DOMAIN ghOut.info
                /\ ghOut.info[ghServer[p][i].Name] = ghServer[p][i].PublishedAt

\* ============================================= package k8s: deletion waits
\* PollUntilContextTimeout(ctx, 3*time.Second, 3*time.Minute, true, cond),
\* in seconds
PollInterval == 3
PollTimeout == 180
\* NoWait = time.Second * 0
NoWait == 0
\* the values of waitFor the callers give, in seconds
WaitFors == {NoWait, 10}

\* what Get reports: the object, a NotFound error, or another error
GetResults == {"found", "NotFound", "GetFailed"}
\* the error of a Get result
GetError(g) == IF g = "found" THEN "nil" ELSE g
DeadlineExceeded == "context deadline exceeded"

\* the condition function of WaitForPodDeletion: (done, err)
PodCondition(g) ==
    IF g = "NotFound" THEN [done |-> FALSE, err |-> GetError(g)]
    ELSE [done |-> TRUE, err |-> "nil"]

\* a condition function that takes NotFound for a failure
DeploymentConditionInverted(g) ==
    IF g = "NotFound" THEN [done |-> FALSE, err |-> GetError(g)]
    ELSE [done |-> TRUE, err |-> "nil"]

\* the condition function of WaitForDeploymentDeletion: (done, err)
DeploymentCondition(g) ==
    IF g = "NotFound" THEN [done |-> TRUE, err |-> "nil"]
    ELSE [done |-> FALSE, err |-> GetError(g)]

Condition(kind, g) ==
    IF kind = "pod" THEN PodCondition(g) ELSE DeploymentCondition(g)

notWaitVars == <<scope, httpVars, k8sVars, logVars, ghVars, podVars, ecrVars, awsVars>>

\* the call, up to the poll: WaitForDeploymentDeletion returns nil at once
\* when waitFor is zero; WaitForPodDeletion has no waitFor
WaitCall ==
    /\ wPc = "call"
    /\ IF wKind = "deployment" /\ wWaitFor = 0
       THEN wPc' = "returned" /\ wErr' = "nil"
       ELSE wPc' = "polling" /\ wErr' = wErr
    /\ UNCHANGED <<wKind, wWaitFor, wTime, wGet, notWaitVars>>

\* one poll: the condition function runs at once and then every
\* PollInterval; an error ends the poll with that error, done ends it with
\* nil
WaitPoll(g) ==
    /\ wPc = "polling"
    /\ wTime < PollTimeout
    /\ wGet' = g
    /\ LET c == Condition(wKind, g)
       IN  IF c.err # "nil"
           THEN wPc' = "returned" /\ wErr' = c.err /\ wTime' = wTime
           ELSE IF c.done
           THEN wPc' = "returned" /\ wErr' = "nil" /\ wTime' = wTime
           ELSE wPc' = "polling" /\ wErr' = wErr /\ wTime' = wTime + PollInterval
    /\ UNCHANGED <<wKind, wWaitFor, notWaitVars>>

\* the context of the poll expires
WaitTimeout ==
    /\ wPc = "polling"
    /\ wTime >= PollTimeout
    /\ wPc' = "returned"
    /\ wErr' = DeadlineExceeded
    /\ UNCHANGED <<wKind, wWaitFor, wTime, wGet, notWaitVars>>

InitWait ==
    /\ scope = "wait" /\ HTTPIdle
    /\ wPc = "call"
    /\ wKind \in {"pod", "deployment"}
    /\ wWaitFor \in IF wKind = "pod" THEN {NoWait} ELSE WaitFors
    /\ wTime = 0
    /\ wGet = "none"
    /\ wErr = "nil"
    /\ K8sIdle /\ LogIdle /\ GhIdle /\ PodIdle /\ EcrIdle /\ AwsIdle

NextWait ==
    \/ WaitCall
    \/ \E g \in GetResults : WaitPoll(g)
    \/ WaitTimeout

SpecWait == InitWait /\ [][NextWait]_vars

\* C26: WaitForPodDeletion returns nil only after a poll has observed that
\* the pod no longer exists; while the pod exists it keeps polling.
C26_PodGone ==
    [][ wKind = "pod"
          => /\ (wPc' = "returned" /\ wErr' = "nil") => wGet' = "NotFound"
             /\ (wPc = "polling" /\ wTime < PollTimeout /\ wGet' = "found")
                   => (wPc' = "polling" /\ wTime' = wTime + PollInterval) ]_vars

\* C27: WaitForDeploymentDeletion returns nil if and only if waitFor is zero
\* (and then no poll is made) or a poll's Get reported NotFound; while Get
\* succeeds it keeps polling; a Get that fails with another error ends the
\* wait with that error.
C27_DeploymentGone ==
    [][ wKind = "deployment"
          => /\ wPc' = "returned"
                   => /\ wErr' = "nil" <=> (wWaitFor = 0 \/ wGet' = "NotFound")
                      /\ wWaitFor = 0 => (wGet' = "none" /\ wTime' = 0)
                      /\ wGet' = "GetFailed" => wErr' = "GetFailed"
             /\ (wPc = "polling" /\ wTime < PollTimeout /\ wGet' = "found")
                   => (wPc' = "polling" /\ wTime' = wTime + PollInterval)
             /\ (wPc = "polling" /\ wTime < PollTimeout /\ wGet' # "found")
                   => wPc' = "returned" ]_vars

\* C27 witness: after polls that found the deployment, a poll reported
\* NotFound and the wait returned nil
C27_Witness ==
    /\ wKind = "deployment" /\ wPc = "returned" /\ wErr = "nil"
    /\ wTime >= 2 * PollInterval /\ wGet = "NotFound" /\ wWaitFor # 0

\* =============================================== package k8s: pod by label
\* pods a list may hold in the model
MaxPods == 3
PodNames == {"p1", "p2", "p3"}
\* what Pods(namespace).List gives: an error, or the names of the pods
PodLists ==
    [err : BOOLEAN, Items : UNION { [1..n -> PodNames] : n \in 0..MaxPods }]

PodResult(name, e) == [name |-> name, err |-> e, panic |-> FALSE]
\* index out of range [0] with length 0
PodPanic == [name |-> "", err |-> "nil", panic |-> TRUE]

\* getPodNameFromSingleList(pods): only a list of more than one pod is
\* refused before pods.Items[0] is read
getPodNameFromSingleList(items) ==
    IF Len(items) > 1 THEN PodResult("", "expecting 1 pod from list")
    ELSE IF Len(items) = 0 THEN PodPanic
    ELSE PodResult(items[1], "nil")

\* GetPodNameFromLabelSelector(selector, namespace)
GetPodNameFromLabelSelector(list) ==
    IF list.err THEN PodResult("", "list failed")
    ELSE getPodNameFromSingleList(list.Items)

notPodVars == <<scope, httpVars, k8sVars, logVars, ghVars, waitVars, ecrVars, awsVars>>

\* one call of GetPodNameFromLabelSelector
PodNameFromSelector ==
    /\ plPc = "call"
    /\ plOut' = GetPodNameFromLabelSelector(plList)
    /\ plPc' = IF plOut'.panic THEN "panicked" ELSE "returned"
    /\ UNCHANGED <<plList, notPodVars>>

InitPods ==
    /\ scope = "pods" /\ HTTPIdle
    /\ plPc = "call"
    /\ plList \in PodLists
    /\ plOut = PodResult("", "nil")
    /\ K8sIdle /\ LogIdle /\ GhIdle /\ WaitIdle /\ EcrIdle /\ AwsIdle

NextPods == PodNameFromSelector

SpecPods == InitPods /\ [][NextPods]_vars

\* C28: the call returns the pod's name when the list has exactly one pod,
\* and returns an error, without panicking, for every other list, the empty
\* one included.
C28_ExactlyOnePod ==
    plPc # "call"
        => /\ plPc = "returned"
           /\ IF ~plList.err /\ Len(plList.Items) = 1
              THEN plOut.name = plList.Items[1] /\ plOut.err = "nil"
              ELSE plOut.err # "nil"

\* ============================================================ package ecr
\* result pages of DescribeImages the model gives
MaxEcrPages == 2

\* A text that may be a version: a version text has an optional prefix v,
\* three numbers and an optional pre-release identifier; any other text is
\* a word.
VersionText(prefix, core, pre) ==
    [kind |-> "version", text |-> "", prefix |-> prefix, core |-> core, pre |-> pre]
WordText(w) ==
    [kind |-> "word", text |-> w, prefix |-> "", core |-> <<0, 0, 0>>, pre |-> ""]
EmptyText == WordText("")
\* the text 0.0.0
ZeroVersion == VersionText("", <<0, 0, 0>>, "")

\* semver.NewVersion(text): the version (numbers and pre-release), or an
\* error for a text that is no version
NewVersion(t) ==
    IF t.kind = "version"
    THEN [ok |-> TRUE, core |-> t.core, pre |-> t.pre]
    ELSE [ok |-> FALSE, core |-> <<0, 0, 0>>, pre |-> ""]

\* Version.String(): the numbers and the pre-release, without prefix
String(v) == VersionText("", v.core, v.pre)

\* precedence of pre-release identifiers: a numeric one is below an
\* alphanumeric one, and a version without one is above both
PreRank(pre) == IF pre = "" THEN 2 ELSE IF pre = "0" THEN 0 ELSE 1

\* Version.LessThan
LessThan(v, c) ==
    \/ v.core[1] < c.core[1]
    \/ v.core[1] = c.core[1] /\ v.core[2] < c.core[2]
    \/ v.core[1] = c.core[1] /\ v.core[2] = c.core[2] /\ v.core[3] < c.core[3]
    \/ v.core = c.core /\ PreRank(v.pre) < PreRank(c.pre)

\* Version.GreaterThan
GreaterThan(v, c) == LessThan(c, v)

\* a policy: a text semver.NewConstraint rejects, or one comparison
InvalidPolicy == [valid |-> FALSE, op |-> "", core |-> <<0, 0, 0>>, pre |-> ""]
Constraint(op, core, pre) == [valid |-> TRUE, op |-> op, core |-> core, pre |-> pre]
Policies ==
    { InvalidPolicy,
      Constraint(">=", <<1, 0, 0>>, ""),
      Constraint("<", <<2, 0, 0>>, ""),
      Constraint(">=", <<0, 0, 0>>, "0") }

\* Constraints.Validate: a pre-release version is refused by a constraint
\* whose version has no pre-release
Validate(c, v) ==
    IF v.pre # "" /\ c.pre = "" THEN FALSE
    ELSE IF c.op = ">=" THEN ~LessThan(v, c)
    ELSE LessThan(v, c)

\* ApplyPolicy(policy, tag)
ApplyPolicy(policy, tag) ==
    IF ~policy.valid THEN FALSE
    ELSE IF ~NewVersion(tag).ok THEN FALSE
    ELSE Validate(policy, NewVersion(tag))

\* MaxImage that keeps the lower version
MaxImageLower(policy, current, new) ==
    IF ~ApplyPolicy(policy, new) THEN current
    ELSE IF ~NewVersion(new).ok THEN current
    ELSE IF ~NewVersion(current).ok THEN current
    ELSE IF LessThan(NewVersion(new), NewVersion(current))
    THEN String(NewVersion(new))
    ELSE current

\* MaxImage(policy, current, new)
MaxImage(policy, current, new) ==
    IF ~ApplyPolicy(policy, new) THEN current
    ELSE IF ~NewVersion(new).ok THEN current
    ELSE IF ~NewVersion(current).ok THEN current
    ELSE IF GreaterThan(NewVersion(new), NewVersion(current))
    THEN String(NewVersion(new))
    ELSE current

\* the tagged images of the model, each the sequence of its tags
Images ==
    { <<WordText("latest"), VersionText("", <<2, 0, 0>>, "")>>,
      <<VersionText("v", <<1, 2, 0>>, "")>>,
      <<VersionText("", <<1, 0, 0>>, "")>>,
      <<VersionText("", <<0, 0, 0>>, "rc")>> }
\* a result page: up to two images
Pages == UNION { [1..n -> Images] : n \in 0..2 }
\* a repository: its result pages
Repositories == UNION { [1..n -> Pages] : n \in 1..MaxEcrPages }

\* the tags of the images of a page, in order
RECURSIVE TagsOf(_)
TagsOf(page) ==
    IF page = <<>> THEN <<>> ELSE Head(page) \o TagsOf(Tail(page))

\* the page a request with the token in hand asks for
PageAsked == IF ecToken = 0 THEN 1 ELSE ecToken

notEcrVars == <<scope, httpVars, k8sVars, logVars, ghVars, waitVars, podVars, awsVars>>

\* describeImages(&params) succeeds
EcrDescribeImages ==
    /\ ecPc = "loop"
    /\ ecPc' = "tags"
    /\ ecQueue' = TagsOf(ecServer[PageAsked])
    /\ UNCHANGED <<ecPolicy, ecServer, ecToken, ecLatest, ecSeen, ecOut, notEcrVars>>

\* describeImages(&params) fails: return "" and the error
EcrDescribeFails ==
    /\ ecPc = "loop"
    /\ ecPc' = "returned"
    /\ ecOut' = [version |-> EmptyText, err |-> TRUE]
    /\ UNCHANGED <<ecPolicy, ecServer, ecToken, ecLatest, ecSeen, ecQueue, notEcrVars>>

\* latestImage = e.MaxImage(policy, latestImage, i), for the next tag
EcrMaxImage ==
    /\ ecPc = "tags"
    /\ ecQueue # <<>>
    /\ ecLatest' = MaxImage(ecPolicy, ecLatest, Head(ecQueue))
    /\ ecSeen' = Append(ecSeen, Head(ecQueue))
    /\ ecQueue' = Tail(ecQueue)
    /\ UNCHANGED <<ecPc, ecPolicy, ecServer, ecToken, ecOut, notEcrVars>>

\* the tags of the page are done: leave when output.NextToken is nil, else
\* ask for the next page
EcrPageDone ==
    /\ ecPc = "tags"
    /\ ecQueue = <<>>
    /\ IF PageAsked >= Len(ecServer)
       THEN /\ ecPc' = "returned"
            /\ ecOut' = [version |-> ecLatest, err |-> FALSE]
            /\ UNCHANGED ecToken
       ELSE /\ ecPc' = "loop"
            /\ ecToken' = PageAsked + 1
            /\ UNCHANGED ecOut
    /\ UNCHANGED <<ecPolicy, ecServer, ecLatest, ecSeen, ecQueue, notEcrVars>>

InitEcr ==
    /\ scope = "ecr" /\ HTTPIdle
    /\ ecPc = "loop"
    /\ ecPolicy \in Policies
    /\ ecServer \in Repositories
    /\ ecToken = 0
    /\ ecLatest = ZeroVersion
    /\ ecSeen = <<>>
    /\ ecQueue = <<>>
    /\ ecOut = [version |-> EmptyText, err |-> FALSE]
    /\ K8sIdle /\ LogIdle /\ GhIdle /\ WaitIdle /\ PodIdle /\ AwsIdle

NextEcr ==
    \/ EcrDescribeImages
    \/ EcrDescribeFails
    \/ EcrMaxImage
    \/ EcrPageDone

SpecEcr == InitEcr /\ [][NextEcr]_vars

\* the tags of all images on all pages of the repository
AllTags ==
    UNION { UNION { { ecServer[p][i][j] : j \in DOMAIN ecServer[p][i] } :
                    i \in DOMAIN ecServer[p] } : p \in DOMAIN ecServer }

\* the tag parses as a version and satisfies the policy constraint
Qualifies(t) == ecPolicy.valid /\ NewVersion(t).ok /\ Validate(ecPolicy, NewVersion(t))

\* the versions of the qualifying tags
Qualifying == { NewVersion(t) : t \in { u \in AllTags : Qualifies(u) } }

\* v is the greatest version of the set vs
Greatest(v, vs) == v \in vs /\ \A w \in vs : ~LessThan(v, w)

\* the steps of MaxImage and the describe error, as C29 states them
StepsAndErrors ==
    /\ ecSeen' # ecSeen
          => LET tag == ecSeen'[Len(ecSeen')]
             IN  /\ \/ ecLatest' = ecLatest
                    \/ NewVersion(tag).ok /\ ecLatest' = String(NewVersion(tag))
                 /\ ~LessThan(NewVersion(ecLatest'), NewVersion(ecLatest))
    /\ (ecPc' = "returned" /\ ecOut'.err) => ecOut'.version = EmptyText

\* C29 as stated: the version returned is the greatest of the qualifying
\* tags, or 0.0.0 when no tag qualifies.
C29_Original ==
    (ecPc = "returned" /\ ~ecOut.err)
        => IF Qualifying = {} THEN ecOut.version = ZeroVersion
           ELSE \E v \in Qualifying :
                   Greatest(v, Qualifying) /\ ecOut.version = String(v)

\* C29: GetLatestImage returns the greatest version among 0.0.0 and the
\* qualifying tags of every page; each MaxImage step returns its current
\* value or the new tag's version and never a lower version; a describe
\* error on any page returns an error and no version.
C29_LatestImage ==
    [][ /\ StepsAndErrors
        /\ (ecPc' = "returned" /\ ~ecOut'.err)
              => \E v \in Qualifying \cup {NewVersion(ZeroVersion)} :
                    /\ Greatest(v, Qualifying \cup {NewVersion(ZeroVersion)})
                    /\ ecOut'.version = String(v) ]_vars

\* C29 witness: the version 2.0.0 of a tag on the second page has been
\* returned, after the tag v1.2.0 of the first page was taken as 1.2.0
C29_Witness ==
    /\ ecPc = "returned" /\ ~ecOut.err /\ Len(ecServer) = 2
    /\ ecOut.version = VersionText("", <<2, 0, 0>>, "")
    /\ ecSeen[1] = VersionText("v", <<1, 2, 0>>, "")
    /\ ecPolicy = Constraint(">=", <<1, 0, 0>>, "")

\* ============================================================ package aws
\* calls of config.LoadDefaultConfig the model follows
MaxLoads == 3

Profiles == {"", "default", "dev"}
Regions == {"eu-west-1", "us-east-1"}

\* getProfileRegionName(profile, region): fmt.Sprintf("%s-%s", ...), with
\* "default" for an empty profile
getProfileRegionName(profile, region) ==
    LET profileName == IF Len(profile) > 0 THEN profile ELSE "default"
    IN  <<profileName, "-", region>>

Keys == {getProfileRegionName(p, r) : p \in Profiles, r \in Regions}

\* an aws.Config: the profile and region it was loaded for, whether the
\* load failed, and which call of the loader made it (0: none)
NoConfig == [profile |-> "", region |-> "", failed |-> FALSE, load |-> 0]
\* config.LoadDefaultConfig(ctx, WithRegion(region),
\* WithSharedConfigProfile(profile)), as the n-th call of the loader
LoadDefaultConfig(profile, region, ok, n) ==
    [profile |-> profile, region |-> region, failed |-> ~ok, load |-> n]

\* the map of a new cache: make(configs)
EmptyConfigs == [k \in Keys |-> NoConfig]

RECURSIVE SumOver(_, _)
SumOver(f, ks) ==
    IF ks = {} THEN 0
    ELSE LET k == CHOOSE x \in ks : TRUE IN f[k] + SumOver(f, ks \ {k})
\* calls of the loader so far
LoaderCalls == SumOver(awTotal, Keys)

\* NewConfig that loads without looking into the cache
NewConfigNoCache(configs, profile, region, ok, n) ==
    LET key == getProfileRegionName(profile, region)
        cfg == LoadDefaultConfig(profile, region, ok, n)
    IN  [configs |-> [configs EXCEPT ![key] = cfg], cfg |-> cfg, hit |-> FALSE]

\* NewConfig(profile, region) on the map configs: the stored configuration
\* when the key is there; else the result of the loader, stored whether
\* the load failed or not
NewConfig(configs, profile, region, ok, n) ==
    LET key == getProfileRegionName(profile, region)
        cfg == LoadDefaultConfig(profile, region, ok, n)
    IN  IF configs[key] # NoConfig
        THEN [configs |-> configs, cfg |-> configs[key], hit |-> TRUE]
        ELSE [configs |-> [configs EXCEPT ![key] = cfg], cfg |-> cfg, hit |-> FALSE]

notAwsVars == <<scope, httpVars, k8sVars, logVars, ghVars, waitVars, podVars, ecrVars>>

\* the state a call of NewConfig on the map configs leaves
AwsReturn(configs, loads, first, profile, region, ok) ==
    LET key == getProfileRegionName(profile, region)
        o == NewConfig(configs, profile, region, ok, LoaderCalls + 1)
    IN  /\ o.hit \/ LoaderCalls < MaxLoads
        /\ awConfigs' = o.configs
        /\ awLoads' = IF o.hit THEN loads ELSE [loads EXCEPT ![key] = @ + 1]
        /\ awTotal' = IF o.hit THEN awTotal ELSE [awTotal EXCEPT ![key] = @ + 1]
        /\ awFirst' = IF first[key] = NoConfig /\ ~o.hit
                      THEN [first EXCEPT ![key] = o.cfg] ELSE first
        /\ awOut' = [profile |-> profile, region |-> region, key |-> key,
                     cfg |-> o.cfg, hit |-> o.hit]
        /\ awPc' = "ready"
        /\ UNCHANGED notAwsVars

\* NewAwsConfig(params, profile, region): a new cache, filled by NewConfig
AwsNewAwsConfig(profile, region, ok) ==
    /\ awPc \in {"new", "ready"}
    /\ AwsReturn(EmptyConfigs, [k \in Keys |-> 0], EmptyConfigs, profile, region, ok)

\* NewConfig(profile, region) on the cache in hand
AwsNewConfig(profile, region, ok) ==
    /\ awPc = "ready"
    /\ AwsReturn(awConfigs, awLoads, awFirst, profile, region, ok)

InitAws ==
    /\ scope = "aws" /\ HTTPIdle
    /\ awPc = "new"
    /\ awConfigs = EmptyConfigs
    /\ awLoads = [k \in Keys |-> 0]
    /\ awTotal = [k \in Keys |-> 0]
    /\ awFirst = EmptyConfigs
    /\ awOut = [profile |-> "", region |-> "", key |-> <<>>, cfg |-> NoConfig,
                hit |-> FALSE]
    /\ K8sIdle /\ LogIdle /\ GhIdle /\ WaitIdle /\ PodIdle /\ EcrIdle

NextAws ==
    \/ \E p \in Profiles, r \in Regions, ok \in BOOLEAN : AwsNewAwsConfig(p, r, ok)
    \/ \E p \in Profiles, r \in Regions, ok \in BOOLEAN : AwsNewConfig(p, r, ok)

SpecAws == InitAws /\ [][NextAws]_vars

\* C30 as stated: over any sequence of NewAwsConfig and NewConfig calls the
\* loader is invoked at most once per key.
C30_Original == \A k \in Keys : awTotal[k] <= 1

\* C30: a cache invokes the loader at most once per key (each NewAwsConfig
\* makes a new cache), an empty profile has the key of profile "default",
\* and every NewConfig returns the configuration the first load for its key
\* stored in the cache, also when that load failed.
C30_LoadOncePerKey ==
    awPc = "ready"
        => /\ \A k \in Keys : awLoads[k] <= 1
           /\ awOut.profile = "" => awOut.key = <<"default", "-", awOut.region>>
           /\ awOut.cfg = awFirst[awOut.key]
           /\ awOut.hit => awLoads[awOut.key] = 1

\* C30 witness: a NewConfig with an empty profile has returned, from the
\* cache, the configuration of a failed load made for profile "default"
C30_Witness ==
    /\ awPc = "ready" /\ awOut.hit /\ awOut.profile = ""
    /\ awOut.cfg.failed /\ awOut.cfg.profile = "default"
    /\ awLoads[awOut.key] = 1

====
